---- MODULE Spec2Model ----
(***************************************************************************)
(* Model of the analysis core of serial_logger.py: the per-task pairing of *)
(* START/RELEASE events with COMPLETE events (build_task_execution_lists), *)
(* the per-task summary (analyze_from_lists) and watchdog_interval, run in *)
(* the order of the script (lines 125-131) on one parsed trace.            *)
(*                                                                         *)
(* Conventions.                                                            *)
(*  - A DataFrame is a sequence of rows [time_ms, event, task]; the column *)
(*    "extra" is never read by the modelled functions and is left out.     *)
(*  - Python lists are 0-based, sequences here are 1-based; the index 0    *)
(*    stands for Python's None in the result of the next(...) search.      *)
(*  - Rounded floats are kept as scaled integers: values rounded to two    *)
(*    decimals in hundredths ("centi"), miss_ratio in thousandths          *)
(*    ("milli").  NaN / None are records with a flag, so that values of    *)
(*    different kinds are never compared.                                  *)
(***************************************************************************)
EXTENDS Integers, Sequences, FiniteSets, TLC

VARIABLES
    df,                          \* the parsed trace (edf_df / rm_df)
    pc,                          \* position of the script
    tasks,                       \* line 35
    ti,                          \* position of "for task in tasks"
    starts, completes, releases, \* lines 42-44
    si, execs, used_complete_indices,        \* loop of lines 49-62
    ri, resps, used_complete_indices_resp,   \* loop of lines 67-78
    warned,                      \* number of warnings.warn calls so far
    paired_exec, paired_resp,    \* history: <<position of the START/RELEASE, idx>> of each match
    exec_map, resp_map, releases_map,        \* lines 36-38, 80-82
    metrics,                     \* result of analyze_from_lists
    wdt                          \* result of watchdog_interval

vars == <<df, pc, tasks, ti, starts, completes, releases, si, execs,
          used_complete_indices, ri, resps, used_complete_indices_resp, warned,
          paired_exec, paired_resp, exec_map, resp_map, releases_map, metrics, wdt>>

(***************************************************************************)
(* Bounds of the input families.                                           *)
(***************************************************************************)
MaxTime == 1
MaxEvents == 4
MaxTwoLen == 3
MaxMissEvents == 4
MaxWdtTime == 1
MaxWdtEvents == 3

(***************************************************************************)
(* Generic helpers.                                                        *)
(***************************************************************************)
SeqsUpTo(S, n) == UNION {[1..k -> S] : k \in 0..n}

Row(t, e, k) == [time_ms |-> t, event |-> e, task |-> k]

RECURSIVE SumSeq(_)
SumSeq(s) == IF s = <<>> THEN 0 ELSE Head(s) + SumSeq(Tail(s))

\* df[df.task == task]
RowsOfTask(rows, task) == LET Keep(r) == r.task = task IN SelectSeq(rows, Keep)

\* dft[dft.event == kind]
RowsOfEvent(rows, kind) == LET Keep(r) == r.event = kind IN SelectSeq(rows, Keep)

\* column 'time_ms' of the rows, .to_list()
TimesOf(rows) == [i \in 1..Len(rows) |-> rows[i].time_ms]

\* insertion of one row into rows already sorted by time_ms, after its equals
RECURSIVE InsertByTime(_, _)
InsertByTime(sorted, r) ==
    IF sorted = <<>> THEN <<r>>
    ELSE IF r.time_ms < Head(sorted).time_ms THEN <<r>> \o sorted
         ELSE <<Head(sorted)>> \o InsertByTime(Tail(sorted), r)

\* .sort_values('time_ms'): rows in ascending time_ms.  Rows of equal time_ms
\* keep their stream order here; the functions modelled read only the
\* time_ms of the rows of one event kind, which no order among equals changes.
RECURSIVE SortByTimeFrom(_, _)
SortByTimeFrom(rows, acc) ==
    IF rows = <<>> THEN acc
    ELSE SortByTimeFrom(Tail(rows), InsertByTime(acc, Head(rows)))

\* faulty variant: the timeline is left in stream order
stream_order(rows) == rows

sort_values(rows) == SortByTimeFrom(rows, <<>>)

\* round(num / den, digits) as an integer number of 10^-digits units, for
\* den > 0: the nearest integer to num * scale / den, halves to even.
RoundScaled(num, den, scale) ==
    LET n == num * scale
        q == n \div den
        r == n - q * den
    IN  IF 2 * r < den THEN q
        ELSE IF 2 * r > den THEN q + 1
        ELSE IF q % 2 = 0 THEN q ELSE q + 1

InfraTasks == {"WDT", "INFO", "Supervisor"}

\* df['task'].unique() without the infrastructure names, in order of first appearance
RECURSIVE UniqueTasks(_, _)
UniqueTasks(rows, seen) ==
    IF rows = <<>> THEN <<>>
    ELSE LET t == Head(rows).task IN
         IF t \in seen \/ t \in InfraTasks THEN UniqueTasks(Tail(rows), seen)
         ELSE <<t>> \o UniqueTasks(Tail(rows), seen \cup {t})

(***************************************************************************)
(* The matching of lines 51 and 68:                                        *)
(*   next((i for i, c in enumerate(completes)                              *)
(*         if c >= x and i not in used), None)                             *)
(***************************************************************************)
RECURSIVE ScanFrom(_, _, _, _)
ScanFrom(cs, x, used, i) ==
    IF i > Len(cs) THEN 0
    ELSE IF cs[i] >= x /\ i \notin used THEN i
    ELSE ScanFrom(cs, x, used, i + 1)

RECURSIVE ScanFromStrict(_, _, _, _)
ScanFromStrict(cs, x, used, i) ==
    IF i > Len(cs) THEN 0
    ELSE IF cs[i] > x /\ i \notin used THEN i
    ELSE ScanFromStrict(cs, x, used, i + 1)

RECURSIVE ScanFromAnyTime(_, _, _, _)
ScanFromAnyTime(cs, x, used, i) ==
    IF i > Len(cs) THEN 0
    ELSE IF i \notin used THEN i
    ELSE ScanFromAnyTime(cs, x, used, i + 1)

RECURSIVE ScanFromReuse(_, _, _, _)
ScanFromReuse(cs, x, used, i) ==
    IF i > Len(cs) THEN 0
    ELSE IF cs[i] >= x THEN i
    ELSE ScanFromReuse(cs, x, used, i + 1)

\* faulty variants of FirstMatch: ">" for ">=", no time test, no consumed test
FirstMatchStrict(cs, x, used) == ScanFromStrict(cs, x, used, 1)
FirstMatchAnyTime(cs, x, used) == ScanFromAnyTime(cs, x, used, 1)
FirstMatchReuse(cs, x, used) == ScanFromReuse(cs, x, used, 1)

FirstMatch(cs, x, used) == ScanFrom(cs, x, used, 1)

(***************************************************************************)
(* One iteration of a pairing loop (lines 51-62, and 68-78): the new       *)
(* sample list, consumed set and warning count, and the idx found.         *)
(***************************************************************************)
\* faulty variant: the lowest unconsumed COMPLETE whatever its time, every sample kept
PairNaive(x, cs, samples, used, nwarn) ==
    LET idx == FirstMatchAnyTime(cs, x, used) IN
    IF idx # 0
    THEN [samples |-> Append(samples, cs[idx] - x), used |-> used \cup {idx},
          warned |-> nwarn, idx |-> idx]
    ELSE [samples |-> samples, used |-> used, warned |-> nwarn, idx |-> 0]

RECURSIVE AppendEvery(_, _, _, _)
AppendEvery(acc, cs, x, i) ==
    IF i > Len(cs) THEN acc
    ELSE AppendEvery(IF cs[i] >= x THEN Append(acc, cs[i] - x) ELSE acc, cs, x, i + 1)

\* faulty variant: one sample for every COMPLETE >= x instead of the first one only
PairEvery(x, cs, samples, used, nwarn) ==
    [samples |-> AppendEvery(samples, cs, x, 1),
     used    |-> used \cup {i \in 1..Len(cs) : cs[i] >= x},
     warned  |-> nwarn,
     idx     |-> FirstMatch(cs, x, used)]

PairOne(x, cs, samples, used, nwarn) ==
    LET idx == FirstMatch(cs, x, used) IN
    IF idx # 0
    THEN LET dur == cs[idx] - x IN
         [samples |-> IF dur >= 0 THEN Append(samples, dur) ELSE samples,
          used    |-> used \cup {idx},
          warned  |-> IF dur >= 0 THEN nwarn ELSE nwarn + 1,
          idx     |-> idx]
    ELSE [samples |-> samples, used |-> used, warned |-> nwarn, idx |-> 0]

\* faulty variant: the response pool starts from the execution pool
SharedPool(exec_pool) == exec_pool

\* line 66: used_complete_indices_resp = set(), whatever the execution pool holds
NewRespPool(exec_pool) == {}

(***************************************************************************)
(* analyze_from_lists, one row of the metrics (lines 90-104).              *)
(***************************************************************************)
NaN == [nan |-> TRUE, centi |-> 0]

\* round(sum(xs) / len(xs), 2) if xs else np.nan
MeanRounded(xs) ==
    IF xs = <<>> THEN NaN
    ELSE [nan |-> FALSE, centi |-> RoundScaled(SumSeq(xs), Len(xs), 100)]

\* line 94: len(dft[dft.event == 'MISS'])
MissCount(rows, task) == Len(RowsOfEvent(RowsOfTask(rows, task), "MISS"))

\* faulty variant: the division by the release count forgotten
TotalAlwaysOne(rels) == 1

\* line 95: total = len(releases) if len(releases) > 0 else 1
Total(rels) == IF Len(rels) > 0 THEN Len(rels) ELSE 1

\* line 101: round(misses / total, 3), in thousandths
MissRatio(misses, rels) == RoundScaled(misses, Total(rels), 1000)

MetricsRow(rows, task, exec_times, resp_times, rels) ==
    [avg_exec_time_ms   |-> MeanRounded(exec_times),
     avg_response_ms    |-> MeanRounded(resp_times),
     miss_ratio         |-> MissRatio(MissCount(rows, task), rels),
     total_exec_time_ms |-> SumSeq(exec_times),
     release_count      |-> Len(rels)]

(***************************************************************************)
(* watchdog_interval (lines 107-112).                                      *)
(***************************************************************************)
None == [defined |-> FALSE, centi |-> 0]

\* wd['time_ms'].diff().dropna(): differences of consecutive rows, in row order
Diffs(ts) == [i \in 1..(Len(ts) - 1) |-> ts[i + 1] - ts[i]]

\* round(intervals.mean(), 2) of at least one interval, in hundredths
MeanOfDiffs(ts) ==
    [defined |-> TRUE, centi |-> RoundScaled(SumSeq(Diffs(ts)), Len(ts) - 1, 100)]

watchdog_interval(rows) ==
    LET wd == RowsOfTask(rows, "WDT") IN
    IF Len(wd) < 2 THEN None ELSE MeanOfDiffs(TimesOf(wd))

(***************************************************************************)
(* Input traces.  A trace is what parse_log returns: rows whose time_ms is *)
(* a natural number, whose event is one of the six kinds of the pattern of *)
(* line 15 and whose task is an identifier.                                *)
(***************************************************************************)
Retag(rows, task) == [i \in 1..Len(rows) |-> Row(rows[i].time_ms, rows[i].event, task)]

Without(rows, kind) == LET Keep(r) == r.event # kind IN SelectSeq(rows, Keep)

\* one schedulable task, the three kinds the pairing reads
PairEvents == {Row(t, e, "T1") : t \in 0..MaxTime, e \in {"START", "COMPLETE", "RELEASE"}}
PairTraces == SeqsUpTo(PairEvents, MaxEvents)

\* a timeline under the name T1, followed by the same timeline under the name
\* T2 with its STARTs, or its RELEASEs, left out
TwoTaskTraces ==
    {Retag(tl, "T1") \o Retag(Without(tl, k), "T2") :
        tl \in SeqsUpTo(PairEvents, MaxTwoLen), k \in {"START", "RELEASE"}}

\* releases and deadline misses of one task
MissEvents == {Row(0, e, "T1") : e \in {"RELEASE", "MISS"}}
MissTraces == SeqsUpTo(MissEvents, MaxMissEvents)

\* watchdog pets and informational rows, under the task name WDT or T1
WdtEvents == {Row(t, e, k) : t \in 0..MaxWdtTime, e \in {"WDT_PET", "INFO"}, k \in {"WDT", "T1"}}
WdtTraces == SeqsUpTo(WdtEvents, MaxWdtEvents)

\* the scenarios of the specification, and traces of infrastructure rows only
ScenarioOutOfOrder ==
    <<Row(10, "START", "T1"), Row(40, "COMPLETE", "T1"),
      Row(50, "START", "T1"), Row(45, "COMPLETE", "T1")>>
ScenarioTwoReleases ==
    <<Row(0, "RELEASE", "T1"), Row(100, "RELEASE", "T1"),
      Row(50, "COMPLETE", "T1"), Row(150, "COMPLETE", "T1")>>
ScenarioWatchdog ==
    <<Row(100, "WDT_PET", "WDT"), Row(600, "WDT_PET", "WDT"),
      Row(1150, "WDT_PET", "WDT"), Row(5, "RELEASE", "T1")>>
ScenarioInfraOnly ==
    <<Row(0, "INFO", "INFO"), Row(1, "WDT_PET", "WDT"), Row(2, "INFO", "Supervisor")>>
ScenarioTraces ==
    {ScenarioOutOfOrder, ScenarioTwoReleases, ScenarioWatchdog, ScenarioInfraOnly}

Traces == PairTraces \cup TwoTaskTraces \cup MissTraces \cup WdtTraces \cup ScenarioTraces

(***************************************************************************)
(* The script on one trace: lines 125/126, 128/129, 130/131.               *)
(***************************************************************************)
EmptyMap == [t \in {} |-> <<>>]

Init ==
    /\ df \in Traces
    /\ pc = "build"
    /\ tasks = <<>> /\ ti = 1
    /\ starts = <<>> /\ completes = <<>> /\ releases = <<>>
    /\ si = 1 /\ execs = <<>> /\ used_complete_indices = {}
    /\ ri = 1 /\ resps = <<>> /\ used_complete_indices_resp = {}
    /\ warned = 0
    /\ paired_exec = <<>> /\ paired_resp = <<>>
    /\ exec_map = EmptyMap /\ resp_map = EmptyMap /\ releases_map = EmptyMap
    /\ metrics = EmptyMap
    /\ wdt = None

\* lines 35-38: the task list and the three empty maps
EnterBuild ==
    /\ pc = "build"
    /\ tasks' = UniqueTasks(df, {})
    /\ ti' = 1
    /\ exec_map' = EmptyMap /\ resp_map' = EmptyMap /\ releases_map' = EmptyMap
    /\ pc' = "tasks"
    /\ UNCHANGED <<df, starts, completes, releases, si, execs, used_complete_indices,
                   ri, resps, used_complete_indices_resp, warned, paired_exec,
                   paired_resp, metrics, wdt>>

\* lines 40-48: the next task's sorted timeline and its three timestamp lists
BeginTask ==
    /\ pc = "tasks" /\ ti <= Len(tasks)
    /\ LET dft == sort_values(RowsOfTask(df, tasks[ti])) IN
        /\ starts' = TimesOf(RowsOfEvent(dft, "START"))
        /\ completes' = TimesOf(RowsOfEvent(dft, "COMPLETE"))
        /\ releases' = TimesOf(RowsOfEvent(dft, "RELEASE"))
    /\ execs' = <<>> /\ used_complete_indices' = {} /\ si' = 1
    /\ paired_exec' = <<>> /\ paired_resp' = <<>>
    /\ pc' = "starts"
    /\ UNCHANGED <<df, tasks, ti, ri, resps, used_complete_indices_resp, warned,
                   exec_map, resp_map, releases_map, metrics, wdt>>

\* lines 49-62: one iteration of "for s in starts"
StartIter ==
    /\ pc = "starts" /\ si <= Len(starts)
    /\ LET out == PairOne(starts[si], completes, execs, used_complete_indices, warned) IN
        /\ execs' = out.samples
        /\ used_complete_indices' = out.used
        /\ warned' = out.warned
        /\ paired_exec' = IF out.idx # 0 THEN Append(paired_exec, <<si, out.idx>>)
                          ELSE paired_exec
    /\ si' = si + 1
    /\ UNCHANGED <<df, pc, tasks, ti, starts, completes, releases, ri, resps,
                   used_complete_indices_resp, paired_resp, exec_map, resp_map,
                   releases_map, metrics, wdt>>

\* lines 65-66: the start loop is over, the response pairing begins
BeginResp ==
    /\ pc = "starts" /\ si > Len(starts)
    /\ resps' = <<>>
    /\ used_complete_indices_resp' = NewRespPool(used_complete_indices)
    /\ ri' = 1
    /\ pc' = "releases"
    /\ UNCHANGED <<df, tasks, ti, starts, completes, releases, si, execs,
                   used_complete_indices, warned, paired_exec, paired_resp,
                   exec_map, resp_map, releases_map, metrics, wdt>>

\* lines 67-78: one iteration of "for r in releases"
ReleaseIter ==
    /\ pc = "releases" /\ ri <= Len(releases)
    /\ LET out == PairOne(releases[ri], completes, resps, used_complete_indices_resp, warned) IN
        /\ resps' = out.samples
        /\ used_complete_indices_resp' = out.used
        /\ warned' = out.warned
        /\ paired_resp' = IF out.idx # 0 THEN Append(paired_resp, <<ri, out.idx>>)
                          ELSE paired_resp
    /\ ri' = ri + 1
    /\ UNCHANGED <<df, pc, tasks, ti, starts, completes, releases, si, execs,
                   used_complete_indices, paired_exec, exec_map, resp_map,
                   releases_map, metrics, wdt>>

\* lines 80-82: the task's three lists are stored
StoreTask ==
    /\ pc = "releases" /\ ri > Len(releases)
    /\ exec_map' = (tasks[ti] :> execs) @@ exec_map
    /\ resp_map' = (tasks[ti] :> resps) @@ resp_map
    /\ releases_map' = (tasks[ti] :> releases) @@ releases_map
    /\ ti' = ti + 1
    /\ pc' = "tasks"
    /\ UNCHANGED <<df, tasks, starts, completes, releases, si, execs,
                   used_complete_indices, ri, resps, used_complete_indices_resp,
                   warned, paired_exec, paired_resp, metrics, wdt>>

\* line 84: build_task_execution_lists returns
ReturnBuild ==
    /\ pc = "tasks" /\ ti > Len(tasks)
    /\ pc' = "analyze"
    /\ UNCHANGED <<df, tasks, ti, starts, completes, releases, si, execs,
                   used_complete_indices, ri, resps, used_complete_indices_resp,
                   warned, paired_exec, paired_resp, exec_map, resp_map,
                   releases_map, metrics, wdt>>

\* lines 87-105: one metrics row per key of exec_map, then
\* pd.DataFrame(metrics).set_index("task").  With no key, metrics is [], the
\* frame has no column at all and set_index("task") raises KeyError.
analyze_from_lists ==
    /\ pc = "analyze"
    /\ IF DOMAIN exec_map = {}
       THEN /\ pc' = "KeyError"
            /\ UNCHANGED metrics
       ELSE /\ metrics' = [t \in DOMAIN exec_map |->
                             MetricsRow(df, t, exec_map[t], resp_map[t], releases_map[t])]
            /\ pc' = "watchdog"
    /\ UNCHANGED <<df, tasks, ti, starts, completes, releases, si, execs,
                   used_complete_indices, ri, resps, used_complete_indices_resp,
                   warned, paired_exec, paired_resp, exec_map, resp_map,
                   releases_map, wdt>>

\* lines 130/131: the watchdog interval of the trace
Watchdog ==
    /\ pc = "watchdog"
    /\ wdt' = watchdog_interval(df)
    /\ pc' = "done"
    /\ UNCHANGED <<df, tasks, ti, starts, completes, releases, si, execs,
                   used_complete_indices, ri, resps, used_complete_indices_resp,
                   warned, paired_exec, paired_resp, exec_map, resp_map,
                   releases_map, metrics>>

Next ==
    \/ EnterBuild
    \/ BeginTask
    \/ StartIter
    \/ BeginResp
    \/ ReleaseIter
    \/ StoreTask
    \/ ReturnBuild
    \/ analyze_from_lists
    \/ Watchdog

Spec == Init /\ [][Next]_vars

(***************************************************************************)
(* Reference definitions used to state the properties.  They are written   *)
(* from the statements, not from the loops above: ascending timestamps by  *)
(* counting, first fit by the least element of the set of candidates, the  *)
(* cursor walk by a single forward index.                                  *)
(***************************************************************************)
SetMax(S) == CHOOSE m \in S : \A x \in S : x <= m
SetMin(S) == CHOOSE m \in S : \A x \in S : m <= x

CountOf(ts, u) == Cardinality({i \in DOMAIN ts : ts[i] = u})

RECURSIVE AscendingFrom(_, _, _)
AscendingFrom(ts, u, top) ==
    IF u > top THEN <<>>
    ELSE [i \in 1..CountOf(ts, u) |-> u] \o AscendingFrom(ts, u + 1, top)

\* the timestamps ts in ascending order
Ascending(ts) ==
    IF ts = <<>> THEN <<>>
    ELSE AscendingFrom(ts, SetMin({ts[i] : i \in DOMAIN ts}), SetMax({ts[i] : i \in DOMAIN ts}))

\* the timestamps of the rows of the trace of one task and one kind, in stream order
EventTimes(rows, task, kind) ==
    LET Keep(r) == r.task = task /\ r.event = kind IN TimesOf(SelectSeq(rows, Keep))

NumEvents(rows, task, kind) ==
    Cardinality({i \in DOMAIN rows : rows[i].task = task /\ rows[i].event = kind})

StartsOf(task) == Ascending(EventTimes(df, task, "START"))
CompletesOf(task) == Ascending(EventTimes(df, task, "COMPLETE"))
ReleasesOf(task) == Ascending(EventTimes(df, task, "RELEASE"))

\* first fit: the k-th and later elements of xs against cs, the indices in
\* `gone` being consumed
RECURSIVE FirstFitFrom(_, _, _, _)
FirstFitFrom(xs, cs, k, gone) ==
    IF k > Len(xs) THEN <<>>
    ELSE LET cand == {i \in (DOMAIN cs) \ gone : cs[i] >= xs[k]} IN
         IF cand = {} THEN FirstFitFrom(xs, cs, k + 1, gone)
         ELSE <<cs[SetMin(cand)] - xs[k]>>
                  \o FirstFitFrom(xs, cs, k + 1, gone \cup {SetMin(cand)})

FirstFit(xs, cs) == FirstFitFrom(xs, cs, 1, {})

\* cursor walk: j is the cursor into cs
RECURSIVE Advance(_, _, _)
Advance(cs, j, x) == IF j <= Len(cs) /\ cs[j] < x THEN Advance(cs, j + 1, x) ELSE j

RECURSIVE CursorFrom(_, _, _, _)
CursorFrom(xs, cs, k, j) ==
    IF k > Len(xs) THEN <<>>
    ELSE LET at == Advance(cs, j, xs[k]) IN
         IF at <= Len(cs) THEN <<cs[at] - xs[k]>> \o CursorFrom(xs, cs, k + 1, at + 1)
         ELSE CursorFrom(xs, cs, k + 1, at)

CursorWalk(xs, cs) == CursorFrom(xs, cs, 1, 1)

Prefix(s, n) == SubSeq(s, 1, n)

InStartLoop == pc = "starts"
InReleaseLoop == pc = "releases"
Stored(task) == task \in DOMAIN exec_map

(***************************************************************************)
(* C1.  For every task the executions and the responses are what first fit *)
(* prescribes: STARTs (RELEASEs) in ascending order, each paired with the  *)
(* lowest-index COMPLETE >= it not yet consumed in that pool, contributing *)
(* complete - start; one without such a COMPLETE contributes nothing.  It  *)
(* holds after each iteration for the part of the list already walked, and *)
(* for the two scenarios: executions = [30], responses = [50, 50].         *)
(***************************************************************************)
FirstFitPairing ==
    /\ \A t \in DOMAIN exec_map :
          /\ exec_map[t] = FirstFit(StartsOf(t), CompletesOf(t))
          /\ resp_map[t] = FirstFit(ReleasesOf(t), CompletesOf(t))
    /\ InStartLoop =>
          /\ starts = StartsOf(tasks[ti]) /\ completes = CompletesOf(tasks[ti])
          /\ execs = FirstFit(Prefix(starts, si - 1), completes)
    /\ InReleaseLoop =>
          /\ releases = ReleasesOf(tasks[ti])
          /\ execs = FirstFit(starts, completes)
          /\ resps = FirstFit(Prefix(releases, ri - 1), completes)
    /\ (df = ScenarioOutOfOrder /\ Stored("T1")) => exec_map["T1"] = <<30>>
    /\ (df = ScenarioTwoReleases /\ Stored("T1")) => resp_map["T1"] = <<50, 50>>

\* the out-of-order scenario is run to its end: its second START found no COMPLETE
FirstFitPairingWitness ==
    /\ pc = "done" /\ df = ScenarioOutOfOrder
    /\ exec_map["T1"] = <<30>> /\ Len(StartsOf("T1")) = 2

(***************************************************************************)
(* C2.  Within one task and one pool a COMPLETE index is consumed at most  *)
(* once: at every step no two STARTs (no two RELEASEs) of the task have    *)
(* been paired with the same COMPLETE index.                               *)
(***************************************************************************)
NoSharedIdx(paired) ==
    \A a, b \in DOMAIN paired : a # b => paired[a][2] # paired[b][2]

ConsumedAtMostOnce ==
    /\ NoSharedIdx(paired_exec)
    /\ NoSharedIdx(paired_resp)
    /\ used_complete_indices = {paired_exec[a][2] : a \in DOMAIN paired_exec}
    /\ InReleaseLoop =>
          used_complete_indices_resp = {paired_resp[a][2] : a \in DOMAIN paired_resp}

\* a later START passed over a COMPLETE >= it because an earlier START had consumed it
ConsumedAtMostOnceWitness ==
    /\ InStartLoop
    /\ \E a \in DOMAIN paired_exec :
          \E i \in 1..(paired_exec[a][2] - 1) :
             /\ completes[i] >= starts[paired_exec[a][1]]
             /\ i \in used_complete_indices

(***************************************************************************)
(* C3.  For every task with at least one RELEASE, miss_ratio (MISS events  *)
(* over RELEASE events) lies in [0, 1], also when the task has more MISS   *)
(* than RELEASE events.                                                    *)
(***************************************************************************)
MissRatioInUnitInterval ==
    \A t \in DOMAIN metrics :
        NumEvents(df, t, "RELEASE") >= 1 =>
            (0 <= metrics[t].miss_ratio /\ metrics[t].miss_ratio <= 1000)

(***************************************************************************)
(* C3 as amended.  For every task with at least one RELEASE and no more    *)
(* MISS than RELEASE events, miss_ratio lies in [0, 1]; miss_ratio is      *)
(* never negative.                                                         *)
(***************************************************************************)
MissRatioInUnitIntervalWhenMissesWithinReleases ==
    \A t \in DOMAIN metrics :
        /\ 0 <= metrics[t].miss_ratio
        /\ (/\ NumEvents(df, t, "RELEASE") >= 1
            /\ NumEvents(df, t, "MISS") <= NumEvents(df, t, "RELEASE"))
              => metrics[t].miss_ratio <= 1000

\* a task that missed some, not all, of at least two releases
MissRatioWitness ==
    /\ pc = "done"
    /\ \E t \in DOMAIN metrics :
          /\ NumEvents(df, t, "RELEASE") >= 2
          /\ NumEvents(df, t, "MISS") >= 1
          /\ NumEvents(df, t, "MISS") < NumEvents(df, t, "RELEASE")
          /\ 0 < metrics[t].miss_ratio /\ metrics[t].miss_ratio < 1000

(***************************************************************************)
(* C4.  watchdog_interval returns None with fewer than two WDT_PET events, *)
(* and otherwise the mean of the differences of consecutive WDT_PET        *)
(* timestamps in ascending order (rounded to two decimals), for every      *)
(* trace: whatever the stream order of the watchdog events, whatever task  *)
(* name the WDT_PET events carry and whatever other events carry 'WDT'.    *)
(***************************************************************************)
PetTimes(rows) ==
    LET Keep(r) == r.event = "WDT_PET" IN Ascending(TimesOf(SelectSeq(rows, Keep)))

MeanPetInterval(rows) ==
    LET pets == PetTimes(rows) IN
    IF Len(pets) < 2 THEN None
    ELSE [defined |-> TRUE,
          centi   |-> RoundScaled(pets[Len(pets)] - pets[1], Len(pets) - 1, 100)]

WatchdogIsMeanPetInterval ==
    pc = "done" => wdt = MeanPetInterval(df)

(***************************************************************************)
(* C5.  No input makes the core fail: for every trace, the empty one and   *)
(* one of infrastructure tasks only included, each of the three functions  *)
(* returns a result and never ends in an error.                            *)
(***************************************************************************)
CoreNeverFails ==
    pc # "KeyError"

(***************************************************************************)
(* C6.  Every duration in the executions and in the responses of any task  *)
(* is >= 0, at every step of the pairing loops and in the returned maps.   *)
(***************************************************************************)
AllNonNegative(s) == \A i \in DOMAIN s : s[i] >= 0

DurationsNonNegative ==
    /\ AllNonNegative(execs) /\ AllNonNegative(resps)
    /\ \A t \in DOMAIN exec_map : AllNonNegative(exec_map[t])
    /\ \A t \in DOMAIN resp_map : AllNonNegative(resp_map[t])

\* a COMPLETE earlier than a START of the task was there to be taken, and samples were made
DurationsNonNegativeWitness ==
    /\ InReleaseLoop /\ execs # <<>> /\ resps # <<>>
    /\ \E i \in DOMAIN completes : \E k \in DOMAIN starts : completes[i] < starts[k]
    /\ \E i \in DOMAIN completes : \E k \in DOMAIN releases : completes[i] < releases[k]

(***************************************************************************)
(* C7.  For every task, at every step and on return, len(executions) <=    *)
(* number of STARTs and len(responses) <= number of RELEASEs of the task.  *)
(***************************************************************************)
NoInventedSamples ==
    /\ InStartLoop => Len(execs) <= si - 1
    /\ (InStartLoop \/ InReleaseLoop) =>
          Len(execs) <= NumEvents(df, tasks[ti], "START")
    /\ InReleaseLoop =>
          /\ Len(resps) <= ri - 1
          /\ Len(resps) <= NumEvents(df, tasks[ti], "RELEASE")
    /\ \A t \in DOMAIN exec_map :
          /\ Len(exec_map[t]) <= NumEvents(df, t, "START")
          /\ Len(resp_map[t]) <= NumEvents(df, t, "RELEASE")

\* a task returned with one START paired and another START dropped, two COMPLETEs being there
NoInventedSamplesWitness ==
    /\ pc = "done"
    /\ \E t \in DOMAIN exec_map :
          /\ Len(exec_map[t]) = 1
          /\ NumEvents(df, t, "START") = 2
          /\ NumEvents(df, t, "COMPLETE") = 2

(***************************************************************************)
(* C8.  The two pools are independent: two tasks with the same RELEASE and *)
(* COMPLETE timestamps have the same responses whatever their STARTs, two  *)
(* tasks with the same START and COMPLETE timestamps have the same         *)
(* executions whatever their RELEASEs, and the response pool starts empty  *)
(* whatever the execution pool has consumed.                               *)
(***************************************************************************)
PoolsIndependent ==
    /\ \A t, u \in DOMAIN exec_map :
          /\ (ReleasesOf(t) = ReleasesOf(u) /\ CompletesOf(t) = CompletesOf(u))
                => resp_map[t] = resp_map[u]
          /\ (StartsOf(t) = StartsOf(u) /\ CompletesOf(t) = CompletesOf(u))
                => exec_map[t] = exec_map[u]
    /\ (InReleaseLoop /\ ri = 1) => used_complete_indices_resp = {}

\* T1 has a START that T2 has not, its only COMPLETE made an execution and a
\* response, and T2 got the same response
PoolsIndependentWitness ==
    /\ pc = "done"
    /\ Stored("T1") /\ Stored("T2")
    /\ StartsOf("T1") # StartsOf("T2")
    /\ ReleasesOf("T1") = ReleasesOf("T2")
    /\ Len(CompletesOf("T1")) = 1 /\ CompletesOf("T1") = CompletesOf("T2")
    /\ Len(exec_map["T1"]) = 1 /\ Len(resp_map["T1"]) = 1
    /\ resp_map["T2"] = resp_map["T1"]

(***************************************************************************)
(* C9.  The scan with a consumed set produces what a single forward cursor *)
(* over the sorted COMPLETE list produces, and the COMPLETE indices chosen *)
(* by successive matched STARTs (RELEASEs) are strictly increasing, ties   *)
(* among COMPLETEs or among STARTs included.                               *)
(***************************************************************************)
StrictlyIncreasingIdx(paired) ==
    \A a, b \in DOMAIN paired : a < b => paired[a][2] < paired[b][2]

ScanEqualsCursor ==
    /\ InStartLoop => execs = CursorWalk(Prefix(starts, si - 1), completes)
    /\ InReleaseLoop =>
          /\ execs = CursorWalk(starts, completes)
          /\ resps = CursorWalk(Prefix(releases, ri - 1), completes)
    /\ StrictlyIncreasingIdx(paired_exec)
    /\ StrictlyIncreasingIdx(paired_resp)

\* two STARTs of one timestamp were paired with two COMPLETEs of one timestamp
ScanEqualsCursorWitness ==
    /\ InReleaseLoop
    /\ Len(paired_exec) >= 2
    /\ starts[paired_exec[1][1]] = starts[paired_exec[2][1]]
    /\ completes[paired_exec[1][2]] = completes[paired_exec[2][2]]

(***************************************************************************)
(* C10.  The negative-duration branch is unreachable: every COMPLETE index *)
(* selected has timestamp >= the START (RELEASE) being paired, no warning  *)
(* is emitted, no matched sample is discarded, and len(executions) is the  *)
(* size of used_complete_indices (len(responses) that of the other pool).  *)
(***************************************************************************)
NegativeBranchUnreachable ==
    /\ warned = 0
    /\ Len(execs) = Cardinality(used_complete_indices)
    /\ Len(resps) = Cardinality(used_complete_indices_resp)
    /\ \A a \in DOMAIN paired_exec :
          completes[paired_exec[a][2]] >= starts[paired_exec[a][1]]
    /\ \A a \in DOMAIN paired_resp :
          completes[paired_resp[a][2]] >= releases[paired_resp[a][1]]

\* a START was paired although an unconsumed COMPLETE of lower index, earlier than it, was there
NegativeBranchUnreachableWitness ==
    /\ InStartLoop
    /\ \E a \in DOMAIN paired_exec :
          \E i \in 1..(paired_exec[a][2] - 1) :
             /\ completes[i] < starts[paired_exec[a][1]]
             /\ i \notin used_complete_indices

====
